---- MODULE Spec2Model ----
(***************************************************************************)
(* Model of the logo archive viewer: the filename parser                   *)
(* (parseLogoFromFilename and its two variants in app/page.tsx), the       *)
(* query engine (filteredLogos, isInDecade) and the query state of the     *)
(* LogoViewer component (search box, debounce, colour and type selectors). *)
(*                                                                         *)
(* A JavaScript string is a sequence of one-character strings, so that     *)
(* split, replace, trim, toLowerCase, includes, startsWith and parseInt    *)
(* are computed character by character.  A JavaScript number is a record   *)
(* [nan, val]: an integer, or NaN.                                         *)
(***************************************************************************)
EXTENDS Integers, Sequences, FiniteSets, TLC

VARIABLES
    filename,       \* parser input: the raw identifier
    id,             \* parser input: the position handed to the parser
    parsed,         \* outcome of the last parser call: [by, threw, value]
    logos,          \* the record collection of the viewer
    searchTerm,     \* useState('') of LogoViewer
    filters,        \* useState({color: '', type: ''}) of LogoViewer
    filteredLogos,  \* the memoised filter result shown by the viewer
    searchValue,    \* useState('') of SearchBar: the text in the box
    pending,        \* the lodash debounce timer: [armed, term]
    mounted,        \* whether the LogoViewer component is mounted
    filteredBy,     \* which component computed filteredLogos, or "none"
    filterThrew,    \* whether the last call of the filter raised
    dropped,        \* history: the term the last restart of the timer replaced
    renderedFilters,\* the filters the selectors were last rendered with
    colorClicks,    \* history: the colour buttons clicked so far
    typeClicks,     \* history: the typography buttons clicked so far
    yearArg,        \* isInDecade input: the year of a record
    searchYearArg,  \* isInDecade input: the year searched for
    inDecade        \* outcome of the last isInDecade call: [by, value]

vars == <<filename, id, parsed, logos, searchTerm, filters, filteredLogos,
          searchValue, pending, mounted, filteredBy, filterThrew, dropped,
          renderedFilters, colorClicks, typeClicks, yearArg, searchYearArg,
          inDecade>>

----------------------------------------------------------------------------
(* Bounds of the model *)

MaxParts == 6       \* most pipe-separated parts of a generated identifier
MaxId == 2          \* largest position handed to the parser
MaxLogos == 2       \* longest record sequence handed to the filter
MaxClicks == 2      \* most clicks on one selector in one run
MaxYear == 25       \* isInDecade is called on years -MaxYear..MaxYear

----------------------------------------------------------------------------
(* JavaScript strings and numbers *)

Upper == <<"A","B","C","D","E","F","G","H","I","J","K","L","M",
           "N","O","P","Q","R","S","T","U","V","W","X","Y","Z">>
Lower == <<"a","b","c","d","e","f","g","h","i","j","k","l","m",
           "n","o","p","q","r","s","t","u","v","w","x","y","z">>
Digits == <<"0","1","2","3","4","5","6","7","8","9">>
WhiteSpace == {" ", "\t", "\n"}

\* the character class [A-Z] of the regular expression /([A-Z])/g
IsUpperAZ(c) == \E i \in DOMAIN Upper : Upper[i] = c

IsDigit(c) == \E i \in DOMAIN Digits : Digits[i] = c
DigitVal(c) == (CHOOSE i \in DOMAIN Digits : Digits[i] = c) - 1

NaN == [nan |-> TRUE, val |-> 0]
Num(n) == [nan |-> FALSE, val |-> n]

\* String.prototype.toLowerCase
toLowerCase(s) ==
    [i \in 1..Len(s) |->
        IF IsUpperAZ(s[i])
        THEN Lower[CHOOSE k \in DOMAIN Upper : Upper[k] = s[i]]
        ELSE s[i]]

\* index of the first occurrence of character c in s, 0 when there is none
IndexOf(s, c) ==
    IF \E i \in 1..Len(s) : s[i] = c
    THEN CHOOSE i \in 1..Len(s) : s[i] = c /\ \A j \in 1..(i-1) : s[j] # c
    ELSE 0

\* String.prototype.split(sep) for a one-character separator: never empty
RECURSIVE split(_, _)
split(s, sep) ==
    LET k == IndexOf(s, sep)
    IN  IF k = 0 THEN <<s>>
        ELSE <<SubSeq(s, 1, k-1)>> \o split(SubSeq(s, k+1, Len(s)), sep)

\* String.prototype.startsWith
startsWith(s, p) == Len(s) >= Len(p) /\ SubSeq(s, 1, Len(p)) = p

\* String.prototype.includes
includes(s, t) ==
    \E i \in 0..(Len(s) - Len(t)) : SubSeq(s, i+1, i+Len(t)) = t

\* String.prototype.trim
RECURSIVE trimStart(_)
trimStart(s) ==
    IF s # <<>> /\ Head(s) \in WhiteSpace THEN trimStart(Tail(s)) ELSE s
RECURSIVE trimEnd(_)
trimEnd(s) ==
    IF s # <<>> /\ s[Len(s)] \in WhiteSpace
    THEN trimEnd(SubSeq(s, 1, Len(s)-1)) ELSE s
trim(s) == trimEnd(trimStart(s))

\* name.replace(/([A-Z])/g, ' $1'): a space before every letter A-Z
RECURSIVE replaceUpper(_)
replaceUpper(s) ==
    IF s = <<>> THEN <<>>
    ELSE (IF IsUpperAZ(Head(s)) THEN <<" ", Head(s)>> ELSE <<Head(s)>>)
         \o replaceUpper(Tail(s))

\* the value of the longest prefix of decimal digits of s read after acc
RECURSIVE digitsValue(_, _)
digitsValue(s, acc) ==
    IF s # <<>> /\ IsDigit(Head(s))
    THEN digitsValue(Tail(s), acc * 10 + DigitVal(Head(s)))
    ELSE acc

HexLetters == <<"a","b","c","d","e","f">>
IsHexDigit(c) ==
    IsDigit(c) \/ \E i \in DOMAIN HexLetters : HexLetters[i] = toLowerCase(<<c>>)[1]
HexVal(c) ==
    IF IsDigit(c) THEN DigitVal(c)
    ELSE 9 + CHOOSE i \in DOMAIN HexLetters : HexLetters[i] = toLowerCase(<<c>>)[1]

\* the value of the longest prefix of hexadecimal digits of s read after acc
RECURSIVE hexValue(_, _)
hexValue(s, acc) ==
    IF s # <<>> /\ IsHexDigit(Head(s))
    THEN hexValue(Tail(s), acc * 16 + HexVal(Head(s)))
    ELSE acc

\* parseInt(s) without radix: leading white space is skipped, one sign is
\* read, then after a prefix 0x or 0X the longest run of hexadecimal digits,
\* otherwise the longest run of decimal digits; NaN when there is no digit
parseInt(s) ==
    LET t == trimStart(s)
        neg == t # <<>> /\ Head(t) = "-"
        u == IF t # <<>> /\ Head(t) \in {"-", "+"} THEN Tail(t) ELSE t
        hex == Len(u) >= 2 /\ u[1] = "0" /\ u[2] \in {"x", "X"}
        h == SubSeq(u, 3, Len(u))
        abs == IF hex THEN hexValue(h, 0) ELSE digitsValue(u, 0)
    IN  IF hex /\ (h = <<>> \/ ~IsHexDigit(Head(h))) THEN NaN
        ELSE IF ~hex /\ (u = <<>> \/ ~IsDigit(Head(u))) THEN NaN
        ELSE Num(IF neg THEN 0 - abs ELSE abs)

\* parseInt(undefined): the argument is the string "undefined"
parseIntUndefined == NaN

\* x || 2000 on a number: NaN and 0 are falsy
orDefaultYear(x) == IF x.nan \/ x.val = 0 THEN Num(2000) ELSE x

----------------------------------------------------------------------------
(* The parser *)

sLogos == <<"/","l","o","g","o","s","/">>
sHttps == <<"h","t","t","p","s",":","/","/">>
sWww == <<"w","w","w">>
sInvalidLogo == <<"I","n","v","a","l","i","d"," ","L","o","g","o">>
sBlack == <<"b","l","a","c","k">>
sSerif == <<"s","e","r","i","f">>
sDefaultPng ==
    <<"/","l","o","g","o","s","/","d","e","f","a","u","l","t",".","p","n","g">>
sExampleCom ==
    <<"h","t","t","p","s",":","/","/","e","x","a","m","p","l","e",".","c","o","m">>

\* a slip: the catch branch without an image path
FallbackLogo_noImage(i) ==
    [id |-> i, name |-> sInvalidLogo, year |-> Num(2000), color |-> sBlack,
     type |-> sSerif, imageUrl |-> <<>>, source |-> sExampleCom]

\* the record of the catch branch
FallbackLogo(i) ==
    [id |-> i, name |-> sInvalidLogo, year |-> Num(2000), color |-> sBlack,
     type |-> sSerif, imageUrl |-> sDefaultPng, source |-> sExampleCom]

\* a slip: the type "sansserif" is rewritten to the id of the selector
SuccessLogo_hyphenated(f, i, name, color, source, type, year) ==
    [id |-> i,
     name |-> trim(replaceUpper(name)),
     year |-> year,
     color |-> toLowerCase(color),
     type |-> IF toLowerCase(type) = <<"s","a","n","s","s","e","r","i","f">>
              THEN <<"s","a","n","s","-","s","e","r","i","f">>
              ELSE toLowerCase(type),
     imageUrl |-> sLogos \o f,
     source |-> IF startsWith(source, sWww) THEN sHttps \o source ELSE source]

\* the object literal of the success path
SuccessLogo(f, i, name, color, source, type, year) ==
    [id |-> i,
     name |-> trim(replaceUpper(name)),
     year |-> year,
     color |-> toLowerCase(color),
     type |-> toLowerCase(type),
     imageUrl |-> sLogos \o f,
     source |-> IF startsWith(source, sWww) THEN sHttps \o source ELSE source]

Returned(v) == [threw |-> FALSE, value |-> v]
Thrown == [threw |-> TRUE, value |-> <<>>]

\* the three throw statements of the try block: an empty filename, a part
\* count other than 5, an empty part
parseThrows(f) ==
    LET parts == split(split(f, ".")[1], "|")
    IN  \/ f = <<>>
        \/ Len(parts) # 5
        \/ \E k \in 1..5 : parts[k] = <<>>

\* parseLogoFromFilename of the viewer (full guard): every throw of the try
\* block is caught and answered with the fallback record
parseLogoFromFilename(f, i) ==
    LET parts == split(split(f, ".")[1], "|")
    IN  IF parseThrows(f)
        THEN Returned(FallbackLogo(i))
        ELSE Returned(SuccessLogo(f, i, parts[1], parts[2], parts[3], parts[4],
                                  orDefaultYear(parseInt(parts[5]))))

\* parseLogoFromFilename at the top of app/page.tsx (partial guard): the
\* first five parts are destructured, a missing or empty one gives the
\* fallback record, further parts are ignored
pageTsx_parseLogoFromFilename(f, i) ==
    LET parts == split(split(f, ".")[1], "|")
    IN  IF Len(parts) < 5 \/ \E k \in 1..5 : parts[k] = <<>>
        THEN Returned(FallbackLogo(i))
        ELSE Returned(SuccessLogo(f, i, parts[1], parts[2], parts[3], parts[4],
                                  orDefaultYear(parseInt(parts[5]))))

\* parseLogoFromFilename nested in Page of app/page.tsx (no guard): calling
\* toLowerCase or startsWith on a missing part raises a TypeError, a missing
\* year is parseInt(undefined), and the year is not defaulted
Page_parseLogoFromFilename(f, i) ==
    LET parts == split(split(f, ".")[1], "|")
    IN  IF Len(parts) < 4
        THEN Thrown
        ELSE Returned(SuccessLogo(f, i, parts[1], parts[2], parts[3], parts[4],
                                  IF Len(parts) < 5 THEN parseIntUndefined
                                  ELSE parseInt(parts[5])))

----------------------------------------------------------------------------
(* The query engine *)

\* a slip: the quotient rounded toward zero, as (n / d) | 0 would
mathTruncDiv(n, d) == IF n >= 0 THEN n \div d ELSE 0 - ((0 - n) \div d)

\* Math.floor(n / d) for an integer n and a positive integer d
mathFloorDiv(n, d) == n \div d

\* a slip: || in place of && between the two bounds
isInDecade_or(y, s) ==
    IF y.nan \/ s.nan THEN FALSE
    ELSE LET decadeStart == mathFloorDiv(s.val, 10) * 10
             decadeEnd == decadeStart + 9
         IN  y.val >= decadeStart \/ y.val <= decadeEnd

\* isInDecade of LogoViewer; a comparison with NaN is false
isInDecade(y, s) ==
    IF y.nan \/ s.nan THEN FALSE
    ELSE LET decadeStart == mathFloorDiv(s.val, 10) * 10
             decadeEnd == decadeStart + 9
         IN  y.val >= decadeStart /\ y.val <= decadeEnd

\* isInDecade of Page in app/page.tsx
Page_isInDecade(y, s) ==
    IF y.nan \/ s.nan THEN FALSE
    ELSE LET decadeStart == mathFloorDiv(s.val, 10) * 10
             decadeEnd == decadeStart + 9
         IN  y.val >= decadeStart /\ y.val <= decadeEnd

\* a slip: the colour filter is left out of the conjunction
matchesLogo_ignoresColor(logo, term, fl) ==
    LET searchLower == toLowerCase(term)
        sy == parseInt(term)
        yearMatch == IF sy.nan THEN FALSE
                     ELSE LET decadeStart == (sy.val \div 10) * 10
                          IN  ~logo.year.nan /\ logo.year.val >= decadeStart
                              /\ logo.year.val <= decadeStart + 9
        matchesSearch == includes(toLowerCase(logo.name), searchLower) \/ yearMatch
        matchesType == fl.type = <<>> \/ logo.type = fl.type
    IN  matchesSearch /\ matchesType

\* the callback of logos.filter in LogoViewer; nothing in its try block
\* raises on records whose fields are strings and numbers
matchesLogo(logo, term, fl) ==
    LET searchLower == toLowerCase(term)
        sy == parseInt(term)
        yearMatch == IF ~sy.nan THEN isInDecade(logo.year, sy) ELSE FALSE
        matchesSearch == includes(toLowerCase(logo.name), searchLower) \/ yearMatch
        matchesColor == fl.color = <<>> \/ logo.color = fl.color
        matchesType == fl.type = <<>> \/ logo.type = fl.type
    IN  matchesSearch /\ matchesColor /\ matchesType

\* a slip: the matching records are returned newest first
computeFilteredLogos_reversed(ls, term, fl) ==
    LET Keep(logo) == matchesLogo(logo, term, fl)
        kept == SelectSeq(ls, Keep)
    IN  [i \in 1..Len(kept) |-> kept[Len(kept) + 1 - i]]

\* the useMemo of filteredLogos in LogoViewer; Array.prototype.filter keeps
\* the elements the callback accepts, in order
computeFilteredLogos(ls, term, fl) ==
    LET Keep(logo) == matchesLogo(logo, term, fl)
    IN  SelectSeq(ls, Keep)

\* a slip: a term that is no number takes the year branch
Page_matchesLogo_yearOnNaN(logo, term, fl) ==
    LET searchLower == toLowerCase(term)
        sy == parseInt(term)
        yearMatch == IF ~sy.nan THEN Page_isInDecade(logo.year, sy) ELSE TRUE
        matchesSearch == includes(toLowerCase(logo.name), searchLower) \/ yearMatch
        matchesColor == fl.color = <<>> \/ logo.color = fl.color
        matchesType == fl.type = <<>> \/ logo.type = fl.type
    IN  matchesSearch /\ matchesColor /\ matchesType

\* the callback of logos.filter in Page
Page_matchesLogo(logo, term, fl) ==
    LET searchLower == toLowerCase(term)
        sy == parseInt(term)
        yearMatch == IF ~sy.nan THEN Page_isInDecade(logo.year, sy) ELSE FALSE
        matchesSearch == includes(toLowerCase(logo.name), searchLower) \/ yearMatch
        matchesColor == fl.color = <<>> \/ logo.color = fl.color
        matchesType == fl.type = <<>> \/ logo.type = fl.type
    IN  matchesSearch /\ matchesColor /\ matchesType

\* the useMemo of filteredLogos in Page
Page_computeFilteredLogos(ls, term, fl) ==
    LET Keep(logo) == Page_matchesLogo(logo, term, fl)
    IN  SelectSeq(ls, Keep)

\* whether the callback of logos.filter in LogoViewer raises on a record:
\* logo.name is read through (logo.name || ''), so a record without a name
\* raises nothing, and whatever is raised inside the callback is caught there
matchesLogoThrows(logo, term, fl) == FALSE

\* whether the useMemo of filteredLogos in LogoViewer raises: the callback
\* does not, and the try around logos.filter catches what is left
filteredLogosThrows(ls, term, fl) ==
    \E k \in 1..Len(ls) : matchesLogoThrows(ls[k], term, fl)

\* whether the callback of logos.filter in Page raises on a record:
\* logo.name.toLowerCase() is a TypeError on a record without a name, and
\* nothing on a record with one; there is no try in this callback
Page_matchesLogoThrows(logo, term, fl) == "name" \notin DOMAIN logo

\* whether the useMemo of filteredLogos in Page raises: it does as soon as
\* its callback does, there is no try around logos.filter either
Page_filteredLogosThrows(ls, term, fl) ==
    \E k \in 1..Len(ls) : Page_matchesLogoThrows(ls[k], term, fl)

\* a slip: the index of map is handed over as it is, counted from 0
mapParse_zeroBased(fs) ==
    [k \in 1..Len(fs) |-> parseLogoFromFilename(fs[k], k - 1).value]

\* logoFilenames.map((filename, index) => parseLogoFromFilename(filename, index + 1))
mapParse(fs) == [k \in 1..Len(fs) |-> parseLogoFromFilename(fs[k], k).value]

\* the same map in Page, over the parser nested in Page: what the parser
\* raises on one identifier leaves the map, and no collection is produced
Page_mapParse(fs) ==
    IF \E k \in 1..Len(fs) : Page_parseLogoFromFilename(fs[k], k).threw
    THEN Thrown
    ELSE Returned([k \in 1..Len(fs) |-> Page_parseLogoFromFilename(fs[k], k).value])

\* the ids of the buttons of ColorSelector and TypographySelector
sBlue == <<"b","l","u","e">>
sRed == <<"r","e","d">>
sWhite == <<"w","h","i","t","e">>
sSansSerif == <<"s","a","n","s","-","s","e","r","i","f">>
colorIds == {sBlue, sRed, sBlack, sWhite}
typeIds == {sSerif, sSansSerif}

----------------------------------------------------------------------------
(* The built-in catalogue *)

sBarcelonaPng ==
    <<"B","a","r","c","e","l","o","n","a","A","r","c","h","i","v","e","s","|",
      "B","l","u","e","|","w","w","w",".","a","r","x","i","u",".","b","a","r",
      "c","e","l","o","n","a","|","S","e","r","i","f","|","1","9","2","2",".",
      "p","n","g">>
sCatalunyaPng ==
    <<"C","a","t","a","l","u","n","y","a","R","a","d","i","o","|","R","e","d",
      "|","w","w","w",".","c","c","m","a",".","c","a","t","|","S","a","n","s",
      "S","e","r","i","f","|","1","9","8","3",".","p","n","g">>

logoFilenames == <<sBarcelonaPng, sCatalunyaPng>>

----------------------------------------------------------------------------
(* Inputs of the parser: identifiers joined from parts, with or without an *)
(* extension, and the two identifiers of the catalogue                     *)

FieldPool == { <<>>, <<"A","b","C">>, <<"w","w","w">> }
YearPool == { <<>>, <<"0">>, <<"1","9">>, <<"-","7">>, <<"x">>, <<"1","x">>,
              <<" ","5">>, <<"0","x","1","f">> }
ExtPool == { <<>>, <<".","p","n","g">> }

RECURSIVE join(_)
join(ps) ==
    IF Len(ps) = 1 THEN ps[1] ELSE ps[1] \o <<"|">> \o join(Tail(ps))

PartLists ==
    UNION { { fs \o <<y>> : fs \in [1..(n-1) -> FieldPool], y \in YearPool } :
            n \in 1..MaxParts }

Filenames ==
    { join(ps) \o e : ps \in PartLists, e \in ExtPool }
    \cup { logoFilenames[k] : k \in DOMAIN logoFilenames }

\* no term has been replaced in the timer since it last started from rest
NoneDropped == [some |-> FALSE, term |-> <<>>]
Dropped(term) == [some |-> TRUE, term |-> term]

NotParsed == [by |-> "none", threw |-> FALSE, value |-> <<>>]
Call(by, r) == [by |-> by, threw |-> r.threw, value |-> r.value]

\* the state of the viewer while only the parser is exercised
ViewerAtRest ==
    /\ logos = <<>>
    /\ searchTerm = <<>>
    /\ filters = [color |-> <<>>, type |-> <<>>]
    /\ filteredLogos = <<>>
    /\ searchValue = <<>>
    /\ pending = [armed |-> FALSE, term |-> <<>>]
    /\ mounted = FALSE
    /\ filteredBy = "none"
    /\ filterThrew = FALSE
    /\ dropped = NoneDropped
    /\ renderedFilters = [color |-> <<>>, type |-> <<>>]
    /\ colorClicks = <<>>
    /\ typeClicks = <<>>

DecadeAtRest ==
    /\ yearArg = 0
    /\ searchYearArg = 0
    /\ inDecade = [by |-> "none", value |-> FALSE]

ParserAtRest ==
    /\ filename = <<>>
    /\ id = 1
    /\ parsed = NotParsed

viewerVars == <<logos, searchTerm, filters, filteredLogos, searchValue,
                pending, mounted, filteredBy, filterThrew, dropped,
                renderedFilters, colorClicks, typeClicks>>
decadeVars == <<yearArg, searchYearArg, inDecade>>
parserVars == <<filename, id, parsed>>

InitParse ==
    /\ filename \in Filenames
    /\ id \in 1..MaxId
    /\ parsed = NotParsed
    /\ ViewerAtRest
    /\ DecadeAtRest

CallParse ==
    /\ parsed' = Call("LogoViewer", parseLogoFromFilename(filename, id))
    /\ UNCHANGED <<filename, id, viewerVars, decadeVars>>

CallPageTsxParse ==
    /\ parsed' = Call("page.tsx", pageTsx_parseLogoFromFilename(filename, id))
    /\ UNCHANGED <<filename, id, viewerVars, decadeVars>>

CallPageParse ==
    /\ parsed' = Call("Page", Page_parseLogoFromFilename(filename, id))
    /\ UNCHANGED <<filename, id, viewerVars, decadeVars>>

NextParse == CallParse \/ CallPageTsxParse \/ CallPageParse

SpecParse == InitParse /\ [][NextParse]_vars

----------------------------------------------------------------------------
(* isInDecade on its own: both inputs drawn from -MaxYear..MaxYear *)

InitDecade ==
    /\ yearArg \in (0 - MaxYear)..MaxYear
    /\ searchYearArg \in (0 - MaxYear)..MaxYear
    /\ inDecade = [by |-> "none", value |-> FALSE]
    /\ ParserAtRest
    /\ ViewerAtRest

CallIsInDecade ==
    /\ inDecade' = [by |-> "LogoViewer",
                    value |-> isInDecade(Num(yearArg), Num(searchYearArg))]
    /\ UNCHANGED <<yearArg, searchYearArg, parserVars, viewerVars>>

CallPageIsInDecade ==
    /\ inDecade' = [by |-> "Page",
                    value |-> Page_isInDecade(Num(yearArg), Num(searchYearArg))]
    /\ UNCHANGED <<yearArg, searchYearArg, parserVars, viewerVars>>

NextDecade == CallIsInDecade \/ CallPageIsInDecade

SpecDecade == InitDecade /\ [][NextDecade]_vars

----------------------------------------------------------------------------
(* The filter on its own: a collection parsed from a few identifiers, and  *)
(* a query drawn from a few terms and the values of the two selectors      *)

FilterIdentifiers ==
    { <<"A","b","Z","|","B","l","u","e","|","w","|","S","e","r","i","f","|",
        "1","9","2","2",".","p","n","g">>,
      <<"C","d","|","R","e","d","|","w","|","S","a","n","s","S","e","r","i","f",
        "|","1","9","8","3",".","p","n","g">>,
      <<"X","1","9","2","|","B","l","u","e","|","w","|","S","a","n","s","-",
        "S","e","r","i","f","|","1","9","2","9">>,
      <<"Q","|","R","e","d","|","w","|","S","e","r","i","f","|","-","5">>,
      <<"N","|","R","e","d","|","w","|","S","e","r","i","f","|","x">>,
      <<>> }

SearchTerms ==
    { <<>>, <<"1","9","2">>, <<"1","9","2","5">>, <<"a","B">>, <<"-","1">>,
      <<"2","0","0","9">>, <<"1","9","8","0","s">>, <<"z">> }

FilterValues == [color : colorIds \cup {<<>>}, type : typeIds \cup {<<>>}]

IdentifierLists == UNION { [1..n -> FilterIdentifiers] : n \in 0..MaxLogos }

\* the collections the two components derive from a list of identifiers
ParsedCollections(fs) ==
    {mapParse(fs)}
    \cup (IF Page_mapParse(fs).threw THEN {} ELSE {Page_mapParse(fs).value})

InitFilter ==
    /\ \E fs \in IdentifierLists : logos \in ParsedCollections(fs)
    /\ searchTerm \in SearchTerms
    /\ filters \in FilterValues
    /\ filteredLogos = <<>>
    /\ filteredBy = "none"
    /\ filterThrew = FALSE
    /\ dropped = NoneDropped
    /\ searchValue = <<>>
    /\ pending = [armed |-> FALSE, term |-> <<>>]
    /\ mounted = FALSE
    /\ renderedFilters = filters
    /\ colorClicks = <<>>
    /\ typeClicks = <<>>
    /\ ParserAtRest
    /\ DecadeAtRest

filterFrame == <<logos, searchTerm, filters, searchValue, pending, mounted,
                 dropped, renderedFilters, colorClicks, typeClicks, parserVars,
                 decadeVars>>

CallFilteredLogos ==
    /\ filteredLogos' = computeFilteredLogos(logos, searchTerm, filters)
    /\ filterThrew' = filteredLogosThrows(logos, searchTerm, filters)
    /\ filteredBy' = "LogoViewer"
    /\ UNCHANGED filterFrame

CallPageFilteredLogos ==
    /\ filteredLogos' = Page_computeFilteredLogos(logos, searchTerm, filters)
    /\ filterThrew' = Page_filteredLogosThrows(logos, searchTerm, filters)
    /\ filteredBy' = "Page"
    /\ UNCHANGED filterFrame

NextFilter == CallFilteredLogos \/ CallPageFilteredLogos

SpecFilter == InitFilter /\ [][NextFilter]_vars

----------------------------------------------------------------------------
(* The LogoViewer component over the built-in catalogue.  React commits    *)
(* the re-render of a click or of a state update before the next event is  *)
(* handled, so every action ends with the render it causes: the selectors  *)
(* get the new filters and the useMemo of filteredLogos is recomputed.     *)

TypedValues == { <<>>, <<"1","9","2">>, <<"2","0","0","0">> }

NoFilters == [color |-> <<>>, type |-> <<>>]
NotPending == [armed |-> FALSE, term |-> <<>>]

\* a slip: the clicked colour is always selected, never cleared
handleColorSelect_noToggle(selectedColor, colorId) == colorId

\* handleColorSelect of ColorSelector: the value handed to onColorSelect
handleColorSelect(selectedColor, colorId) ==
    LET safeSelectedColor == selectedColor
    IN  IF safeSelectedColor = colorId THEN <<>> ELSE colorId

\* handleTypeSelect of TypographySelector: the value handed to onSelect
handleTypeSelect(selected, type) ==
    LET safeSelected == selected
    IN  IF safeSelected = type THEN <<>> ELSE type

Init ==
    /\ logos = mapParse(logoFilenames)
    /\ searchTerm = <<>>
    /\ filters = NoFilters
    /\ filteredLogos = computeFilteredLogos(mapParse(logoFilenames), <<>>, NoFilters)
    /\ filteredBy = "LogoViewer"
    /\ filterThrew = FALSE
    /\ dropped = NoneDropped
    /\ searchValue = <<>>
    /\ pending = NotPending
    /\ mounted = TRUE
    /\ renderedFilters = NoFilters
    /\ colorClicks = <<>>
    /\ typeClicks = <<>>
    /\ ParserAtRest
    /\ DecadeAtRest

\* a slip: a call made while the timer runs is ignored, the timer keeps the
\* term of the first call
HandleChange_keepsFirst(v) ==
    /\ mounted
    /\ v # searchValue
    /\ searchValue' = v
    /\ pending' = IF pending.armed THEN pending ELSE [armed |-> TRUE, term |-> v]
    /\ dropped' = IF pending.armed THEN Dropped(pending.term) ELSE NoneDropped
    /\ UNCHANGED <<logos, searchTerm, filters, filteredLogos, filteredBy,
                   filterThrew, mounted, renderedFilters, colorClicks, typeClicks,
                   parserVars, decadeVars>>

\* SearchBar.handleChange: the box shows the value and the debounced
\* function is called with it, which restarts the 300 ms timer
HandleChange(v) ==
    /\ mounted
    /\ v # searchValue
    /\ searchValue' = v
    /\ pending' = [armed |-> TRUE, term |-> v]
    /\ dropped' = IF pending.armed THEN Dropped(pending.term) ELSE NoneDropped
    /\ UNCHANGED <<logos, searchTerm, filters, filteredLogos, filteredBy,
                   filterThrew, mounted, renderedFilters, colorClicks, typeClicks,
                   parserVars, decadeVars>>

\* the clear button of SearchBar, rendered while the box is not empty
ClearClick ==
    /\ mounted
    /\ searchValue # <<>>
    /\ searchValue' = <<>>
    /\ pending' = [armed |-> TRUE, term |-> <<>>]
    /\ dropped' = IF pending.armed THEN Dropped(pending.term) ELSE NoneDropped
    /\ UNCHANGED <<logos, searchTerm, filters, filteredLogos, filteredBy,
                   filterThrew, mounted, renderedFilters, colorClicks, typeClicks,
                   parserVars, decadeVars>>

\* a slip: the expiring timer drops its term instead of applying it
DebounceFire_dropsTerm ==
    /\ pending.armed
    /\ pending' = NotPending
    /\ UNCHANGED <<logos, searchTerm, filteredLogos, filters, filteredBy,
                   filterThrew, dropped, searchValue, mounted, renderedFilters,
                   colorClicks, typeClicks, parserVars, decadeVars>>

\* the timer of debouncedSearch expires: setSearchTerm(term), then render
DebounceFire ==
    /\ pending.armed
    /\ searchTerm' = pending.term
    /\ pending' = NotPending
    /\ filteredLogos' = computeFilteredLogos(logos, pending.term, filters)
    /\ UNCHANGED <<logos, filters, filteredBy, filterThrew, dropped,
                   searchValue, mounted,
                   renderedFilters, colorClicks, typeClicks, parserVars,
                   decadeVars>>

\* a colour button: handleColorSelect, then
\* onColorSelect = (color) => setFilters({ ...filters, color }), then render
ColorClick(c) ==
    /\ mounted
    /\ Len(colorClicks) < MaxClicks
    /\ LET color == handleColorSelect(renderedFilters.color, c)
           next == [renderedFilters EXCEPT !.color = color]
       IN  /\ filters' = next
           /\ renderedFilters' = next
           /\ filteredLogos' = computeFilteredLogos(logos, searchTerm, next)
    /\ colorClicks' = Append(colorClicks, c)
    /\ UNCHANGED <<logos, searchTerm, filteredBy, filterThrew, dropped,
                   searchValue, pending, mounted, typeClicks, parserVars, decadeVars>>

\* a typography button: handleTypeSelect, then
\* onSelect = (type) => setFilters({ ...filters, type }), then render
TypeClick(t) ==
    /\ mounted
    /\ Len(typeClicks) < MaxClicks
    /\ LET type == handleTypeSelect(renderedFilters.type, t)
           next == [renderedFilters EXCEPT !.type = type]
       IN  /\ filters' = next
           /\ renderedFilters' = next
           /\ filteredLogos' = computeFilteredLogos(logos, searchTerm, next)
    /\ typeClicks' = Append(typeClicks, t)
    /\ UNCHANGED <<logos, searchTerm, filteredBy, filterThrew, dropped,
                   searchValue, pending, mounted, colorClicks, parserVars, decadeVars>>

\* a slip: the effect has no cleanup, the timer outlives the component
Unmount_noCancel ==
    /\ mounted
    /\ mounted' = FALSE
    /\ UNCHANGED <<logos, searchTerm, filters, filteredLogos, filteredBy,
                   filterThrew, dropped, searchValue, pending, renderedFilters,
                   colorClicks, typeClicks, parserVars, decadeVars>>

\* the component is unmounted: the effect cleanup calls debouncedSearch.cancel()
Unmount ==
    /\ mounted
    /\ mounted' = FALSE
    /\ pending' = NotPending
    /\ UNCHANGED <<logos, searchTerm, filters, filteredLogos, filteredBy,
                   filterThrew, dropped, searchValue, renderedFilters, colorClicks, typeClicks,
                   parserVars, decadeVars>>

Next ==
    \/ \E v \in TypedValues : HandleChange(v)
    \/ ClearClick
    \/ DebounceFire
    \/ \E c \in colorIds : ColorClick(c)
    \/ \E t \in typeIds : TypeClick(t)
    \/ Unmount

Spec == Init /\ [][Next]_vars

\* the viewer with its timer: a timer armed with a term expires, 300 ms
\* after the call that armed it, unless a later call of the debounced
\* function restarts it with another term or cancel() disarms it
SpecLive ==
    Spec /\ \A v \in TypedValues : WF_vars(pending.term = v /\ DebounceFire)

----------------------------------------------------------------------------
(* The viewer when two clicks are handled before a re-render.  React runs  *)
(* the render of a click after the handler has returned (at the end of the *)
(* batch, or in a microtask), so a second click dispatched in the same     *)
(* task is handled by the handlers of the last render: onColorSelect and   *)
(* onSelect spread the filters that render captured, not the filters the   *)
(* first click has set.                                                    *)

\* a colour button whose render is still outstanding when the next click
\* is handled: setFilters({ ...filters, color }) is queued
ColorClickQueued(c) ==
    /\ mounted
    /\ filters = renderedFilters
    /\ Len(colorClicks) < MaxClicks
    /\ filters' = [renderedFilters EXCEPT
                      !.color = handleColorSelect(renderedFilters.color, c)]
    /\ colorClicks' = Append(colorClicks, c)
    /\ UNCHANGED <<logos, searchTerm, filteredLogos, filteredBy, filterThrew,
                   dropped, searchValue, pending, mounted, renderedFilters,
                   typeClicks, parserVars, decadeVars>>

\* a typography button whose render is still outstanding when the next
\* click is handled: setFilters({ ...filters, type }) is queued
TypeClickQueued(t) ==
    /\ mounted
    /\ filters = renderedFilters
    /\ Len(typeClicks) < MaxClicks
    /\ filters' = [renderedFilters EXCEPT
                      !.type = handleTypeSelect(renderedFilters.type, t)]
    /\ typeClicks' = Append(typeClicks, t)
    /\ UNCHANGED <<logos, searchTerm, filteredLogos, filteredBy, filterThrew,
                   dropped, searchValue, pending, mounted, renderedFilters,
                   colorClicks, parserVars, decadeVars>>

\* the outstanding render: the selectors get the filters, the useMemo of
\* filteredLogos is recomputed
Render ==
    /\ mounted
    /\ filters # renderedFilters
    /\ renderedFilters' = filters
    /\ filteredLogos' = computeFilteredLogos(logos, searchTerm, filters)
    /\ UNCHANGED <<logos, searchTerm, filters, filteredBy, filterThrew,
                   dropped, searchValue, pending, mounted, colorClicks,
                   typeClicks, parserVars, decadeVars>>

\* while a render is outstanding only a click of the same task or the
\* render itself comes next; timers and input events are later tasks
NextBatched ==
    \/ filters = renderedFilters /\ Next
    \/ \E c \in colorIds : ColorClickQueued(c)
    \/ \E t \in typeIds : TypeClickQueued(t)
    \/ filters # renderedFilters /\ \E c \in colorIds : ColorClick(c)
    \/ filters # renderedFilters /\ \E t \in typeIds : TypeClick(t)
    \/ Render

SpecBatched == Init /\ [][NextBatched]_vars

----------------------------------------------------------------------------
(* Vocabulary of the properties, stated without the operators of the code *)

\* the identifier up to, and without, its first "."
Stripped(f) ==
    IF \A i \in 1..Len(f) : f[i] # "." THEN f
    ELSE LET d == CHOOSE i \in 1..Len(f) :
                      f[i] = "." /\ \A j \in 1..(i-1) : f[j] # "."
         IN  [i \in 1..(d-1) |-> f[i]]

Pipes(t) == { i \in 1..Len(t) : t[i] = "|" }

\* malformed: empty, or not exactly 5 parts, or an empty part
Malformed(f) ==
    LET t == Stripped(f)
    IN  \/ f = <<>>
        \/ Cardinality(Pipes(t)) # 4
        \/ t = <<>>
        \/ t[1] = "|"
        \/ t[Len(t)] = "|"
        \/ \E i \in 1..(Len(t)-1) : t[i] = "|" /\ t[i+1] = "|"

\* the k-th of the five fields of a well-formed identifier
Field(f, k) ==
    LET t == Stripped(f)
        cuts == Pipes(t) \cup {0, Len(t) + 1}
        lo == CHOOSE i \in cuts : Cardinality({c \in cuts : c < i}) = k - 1
        hi == CHOOSE i \in cuts : Cardinality({c \in cuts : c < i}) = k
    IN  [i \in 1..(hi - lo - 1) |-> t[lo + i]]

\* a numeric field: decimal digits after an optional minus sign
IsNumeric(y) ==
    LET ds == IF y # <<>> /\ y[1] = "-" THEN Tail(y) ELSE y
    IN  ds # <<>> /\ \A i \in 1..Len(ds) : IsDigit(ds[i])

RECURSIVE Decimal(_)
Decimal(ds) ==
    IF ds = <<>> THEN 0
    ELSE 10 * Decimal(SubSeq(ds, 1, Len(ds)-1)) + DigitVal(ds[Len(ds)])

IntegerValue(y) ==
    IF y[1] = "-" THEN 0 - Decimal(Tail(y)) ELSE Decimal(y)

LowerCased(s) == toLowerCase(s)

\* a space before each upper-case letter that is not the first character
SpacedName(n) ==
    LET Gap(i) == IF i > 1 /\ IsUpperAZ(n[i]) THEN <<" ">> ELSE <<>>
        F[i \in 0..Len(n)] == IF i = 0 THEN <<>> ELSE F[i-1] \o Gap(i) \o <<n[i]>>
    IN  F[Len(n)]

Trimmed(s) ==
    IF \A i \in 1..Len(s) : s[i] \in WhiteSpace THEN <<>>
    ELSE LET a == CHOOSE i \in 1..Len(s) :
                      s[i] \notin WhiteSpace /\ \A j \in 1..(i-1) : s[j] \in WhiteSpace
             b == CHOOSE i \in 1..Len(s) :
                      s[i] \notin WhiteSpace /\ \A j \in (i+1)..Len(s) : s[j] \in WhiteSpace
         IN  [i \in 1..(b - a + 1) |-> s[a + i - 1]]

LogoFields == {"id", "name", "year", "color", "type", "imageUrl", "source"}

\* the multiple of 10 at the start of the decade of s: floor(s/10)*10
DecadeStart(s) == CHOOSE d \in (s-9)..s : d % 10 = 0

\* t occurs in s as a run of consecutive characters
IsSubstring(t, s) ==
    \E a \in 0..(Len(s) - Len(t)) : \A i \in 1..Len(t) : s[a + i] = t[i]

Occurs(x, xs) == \E i \in 1..Len(xs) : xs[i] = x

\* a is b with some elements left out, the others in their order
IsSubsequence(a, b) ==
    \E f \in [1..Len(a) -> 1..Len(b)] :
        /\ \A i \in 1..Len(a) : a[i] = b[f[i]]
        /\ \A i \in 1..Len(a) : \A j \in 1..Len(a) : i < j => f[i] < f[j]

\* the filter value after the clicks h, starting from no filter
RECURSIVE AfterClicks(_)
AfterClicks(h) ==
    IF h = <<>> THEN <<>>
    ELSE LET before == AfterClicks(SubSeq(h, 1, Len(h)-1))
             v == h[Len(h)]
         IN  IF before = v THEN <<>> ELSE v

----------------------------------------------------------------------------
(* Properties of the parser, checked under SpecParse *)

\* C1: parseLogoFromFilename is total.  Whatever the identifier and the
\* position, every implementation of it returns a record with the seven
\* fields and never raises, and on a malformed identifier the record is the
\* fallback record.
C1_ParseIsTotal ==
    parsed.by # "none" =>
        /\ ~parsed.threw
        /\ DOMAIN parsed.value = LogoFields
        /\ Malformed(filename) => parsed.value = FallbackLogo(id)

\* C2: on an empty identifier, a part count other than 5 or an empty part,
\* the viewer's parser and the guarded parser of app/page.tsx return exactly
\* "Invalid Logo", 2000, "black", "serif", "/logos/default.png",
\* "https://example.com" and the position as id.
C2_MalformedGivesFallback ==
    (parsed.by \in {"LogoViewer", "page.tsx"} /\ Malformed(filename)) =>
        /\ ~parsed.threw
        /\ parsed.value.id = id
        /\ parsed.value.name = <<"I","n","v","a","l","i","d"," ","L","o","g","o">>
        /\ parsed.value.year = Num(2000)
        /\ parsed.value.color = <<"b","l","a","c","k">>
        /\ parsed.value.type = <<"s","e","r","i","f">>
        /\ parsed.value.imageUrl =
             <<"/","l","o","g","o","s","/","d","e","f","a","u","l","t",".","p","n","g">>
        /\ parsed.value.source =
             <<"h","t","t","p","s",":","/","/","e","x","a","m","p","l","e",".","c","o","m">>

\* C3: the first identifier of the catalogue, parsed at position 1 by the
\* viewer's parser, gives the Barcelona Archives record of 1922, blue,
\* serif, with its image path and https source.
C3_ScenarioA ==
    (parsed.by = "LogoViewer" /\ filename = sBarcelonaPng /\ id = 1) =>
        parsed.value =
            [id |-> 1,
             name |-> <<"B","a","r","c","e","l","o","n","a"," ",
                        "A","r","c","h","i","v","e","s">>,
             year |-> Num(1922),
             color |-> <<"b","l","u","e">>,
             type |-> <<"s","e","r","i","f">>,
             imageUrl |-> <<"/","l","o","g","o","s","/">> \o sBarcelonaPng,
             source |-> <<"h","t","t","p","s",":","/","/","w","w","w",".",
                          "a","r","x","i","u",".","b","a","r","c","e","l","o","n","a">>]

\* C4: on an identifier with five non-empty fields and a numeric year, the
\* viewer's parser and the guarded parser of app/page.tsx return the integer
\* value of the year (0 included), the lower-cased colour and type, and the
\* name with a space before each inner upper-case letter, trimmed.
C4_WellFormedRoundTrip ==
    (/\ parsed.by \in {"LogoViewer", "page.tsx"}
     /\ ~Malformed(filename)
     /\ IsNumeric(Field(filename, 5))) =>
        /\ ~parsed.threw
        /\ parsed.value.year = Num(IntegerValue(Field(filename, 5)))
        /\ parsed.value.color = LowerCased(Field(filename, 2))
        /\ parsed.value.type = LowerCased(Field(filename, 4))
        /\ parsed.value.name = Trimmed(SpacedName(Field(filename, 1)))

\* C5: on an identifier with five non-empty fields whose year does not parse
\* as an integer, the viewer's parser and the parser of Page return the
\* record of the success path with the year 2000, never the fallback record
\* and never a NaN year.
C5_NonNumericYear ==
    (/\ parsed.by \in {"LogoViewer", "Page"}
     /\ ~Malformed(filename)
     /\ parseInt(Field(filename, 5)).nan) =>
        /\ ~parsed.threw
        /\ ~parsed.value.year.nan
        /\ parsed.value.year = Num(2000)
        /\ parsed.value.imageUrl = <<"/","l","o","g","o","s","/">> \o filename
        /\ parsed.value.color = LowerCased(Field(filename, 2))
        /\ parsed.value.type = LowerCased(Field(filename, 4))
        /\ parsed.value # FallbackLogo(id)

\* a string: a finite sequence of characters
IsString(x) ==
    /\ DOMAIN x = 1..Len(x)
    /\ \A i \in 1..Len(x) : x[i] \in STRING

\* C13: whatever the identifier, well-formed or malformed, every record a
\* parser returns has an imageUrl that is a non-empty string and has a
\* color and a type that are present and are strings, never undefined.
C13_DefinedColorAndType ==
    (parsed.by # "none" /\ ~parsed.threw) =>
        /\ {"imageUrl", "color", "type"} \subseteq DOMAIN parsed.value
        /\ IsString(parsed.value.imageUrl)
        /\ parsed.value.imageUrl # <<>>
        /\ IsString(parsed.value.color)
        /\ IsString(parsed.value.type)

\* a malformed identifier on which the viewer's parser has returned the
\* fallback values "black" and "serif"
C13_Witness ==
    /\ parsed.by = "LogoViewer"
    /\ Malformed(filename)
    /\ filename # <<>>
    /\ parsed.value.color = <<"b","l","a","c","k">>
    /\ parsed.value.type = <<"s","e","r","i","f">>
    /\ parsed.value.imageUrl # <<>>

----------------------------------------------------------------------------
(* Properties of the query engine, checked under SpecFilter and SpecDecade *)

\* the three predicates of a match, in the words of the specification
TextOrYearMatch(logo, term) ==
    \/ IsSubstring(LowerCased(term), LowerCased(logo.name))
    \/ LET s == parseInt(term)
       IN  /\ ~s.nan
           /\ ~logo.year.nan
           /\ DecadeStart(s.val) <= logo.year.val
           /\ logo.year.val <= DecadeStart(s.val) + 9
ColorMatch(logo, fl) == fl.color = <<>> \/ logo.color = fl.color
TypeMatch(logo, fl) == fl.type = <<>> \/ logo.type = fl.type

\* C6: a record of the collection is in the filter result exactly when the
\* text-or-year predicate, the colour predicate and the type predicate all
\* hold; with an empty search term the text-or-year predicate holds of every
\* record.
C6_FilterIffAllThree ==
    filteredBy # "none" =>
        /\ \A k \in 1..Len(logos) :
              Occurs(logos[k], filteredLogos) <=>
                  /\ TextOrYearMatch(logos[k], searchTerm)
                  /\ ColorMatch(logos[k], filters)
                  /\ TypeMatch(logos[k], filters)
        /\ searchTerm = <<>> =>
              \A k \in 1..Len(logos) :
                  Occurs(logos[k], filteredLogos) <=>
                      (ColorMatch(logos[k], filters) /\ TypeMatch(logos[k], filters))

\* a record kept through the year branch alone under a colour filter, next
\* to a record that was dropped
C6_Witness ==
    /\ filteredBy # "none"
    /\ filters.color # <<>>
    /\ \E k \in 1..Len(logos) :
          /\ Occurs(logos[k], filteredLogos)
          /\ ~IsSubstring(LowerCased(searchTerm), LowerCased(logos[k].name))
    /\ \E k \in 1..Len(logos) : ~Occurs(logos[k], filteredLogos)

\* C7: for integers y and s, negative ones included, isInDecade(y, s) is
\* true exactly when floor(s/10)*10 <= y <= floor(s/10)*10 + 9.
C7_DecadeMatching ==
    inDecade.by # "none" =>
        (inDecade.value <=>
            (DecadeStart(searchYearArg) <= yearArg
             /\ yearArg <= DecadeStart(searchYearArg) + 9))

\* a negative search year whose decade holds a negative year
C7_Witness ==
    /\ inDecade.by # "none"
    /\ searchYearArg = 0 - 5
    /\ yearArg = 0 - 10
    /\ inDecade.value

\* C8: the filter result is a subsequence of the collection (every returned
\* record is in it, none twice, in the order of the collection), and with
\* an empty search term and no filter it is the collection itself.
C8_OrderPreserved ==
    filteredBy # "none" =>
        /\ IsSubsequence(filteredLogos, logos)
        /\ (searchTerm = <<>> /\ filters = NoFilters) => filteredLogos = logos

\* two records kept under a search term and a colour filter
C8_Witness ==
    /\ filteredBy # "none"
    /\ searchTerm # <<>>
    /\ filters.color # <<>>
    /\ Len(filteredLogos) = 2
    /\ filteredLogos[1] # filteredLogos[2]

C14_IdsArePositions ==
    /\ \A k \in 1..Len(logos) : logos[k].id = k /\ logos[k].id > 0
    /\ \A j \in 1..Len(logos) : \A k \in 1..Len(logos) :
          j # k => logos[j].id # logos[k].id

\* a collection of MaxLogos records whose last one is the fallback record
\* of a malformed identifier, after a record of the success path
C14_Witness ==
    /\ Len(logos) = MaxLogos
    /\ logos[1].imageUrl #
         <<"/","l","o","g","o","s","/","d","e","f","a","u","l","t",".","p","n","g">>
    /\ logos[MaxLogos].imageUrl =
         <<"/","l","o","g","o","s","/","d","e","f","a","u","l","t",".","p","n","g">>
    /\ logos[MaxLogos].id = MaxLogos

\* the identifier a record of the success path was parsed from: its
\* imageUrl without the leading "/logos/"
RawOf(logo) == SubSeq(logo.imageUrl, 8, Len(logo.imageUrl))

\* the record was parsed from an identifier whose type field is "SansSerif"
FromSansSerifField(logo) ==
    /\ ~Malformed(RawOf(logo))
    /\ Field(RawOf(logo), 4) = <<"S","a","n","s","S","e","r","i","f">>

\* C17: a record parsed from the raw type field "SansSerif" has the type
\* "sansserif", lower-cased with no hyphen, which is not the filter value
\* "sans-serif"; so under the type filter "sans-serif" the filter result
\* holds no such record.
C17_SansSerifNeverMatches ==
    \A k \in 1..Len(logos) :
        FromSansSerifField(logos[k]) =>
            /\ logos[k].type = <<"s","a","n","s","s","e","r","i","f">>
            /\ logos[k].type # <<"s","a","n","s","-","s","e","r","i","f">>
            /\ (/\ filteredBy # "none"
                /\ filters.type = <<"s","a","n","s","-","s","e","r","i","f">>)
                   => ~Occurs(logos[k], filteredLogos)

\* under the type filter "sans-serif" and no search term, a record parsed
\* from "SansSerif" is left out while another record is returned
C17_Witness ==
    /\ filteredBy = "LogoViewer"
    /\ searchTerm = <<>>
    /\ filters = [color |-> <<>>, type |-> <<"s","a","n","s","-","s","e","r","i","f">>]
    /\ \E k \in 1..Len(logos) : FromSansSerifField(logos[k])
    /\ Len(filteredLogos) = 1

----------------------------------------------------------------------------
(* Properties of the viewer, checked under Spec *)

\* v clicked twice from no filter leaves no filter
TwiceClears(h, held) == (Len(h) = 2 /\ h[1] = h[2]) => held = <<>>
\* v then another value w leaves w
OtherReplaces(h, held) ==
    (Len(h) >= 2 /\ h[Len(h)-1] # h[Len(h)]) => held = h[Len(h)]

C10_ScenarioC ==
    (searchTerm = <<"1","9","2">> /\ filters = NoFilters) =>
        /\ Len(filteredLogos) = 1
        /\ filteredLogos[1].id = 1
        /\ filteredLogos[1].name = <<"B","a","r","c","e","l","o","n","a"," ",
                                     "A","r","c","h","i","v","e","s">>
        /\ filteredLogos[1].year = Num(1922)

\* C10 as amended: over the built-in catalogue, with the search term "192"
\* and no colour or type filter, the result is empty.
C10_ScenarioCEmpty ==
    (searchTerm = <<"1","9","2">> /\ filters = NoFilters) =>
        filteredLogos = <<>>

\* "192" has been typed and applied with no filter set
C10_Witness ==
    /\ searchTerm = <<"1","9","2">>
    /\ filters = NoFilters
    /\ Len(logos) = 2
    /\ ~pending.armed

\* C12: once the component is torn down the pending debounced update is
\* cancelled: the step that unmounts and every later step leave searchTerm
\* as it was, and no timer stays armed.
C12_NoUpdateAfterTeardown ==
    [][~mounted' => (searchTerm' = searchTerm /\ ~pending'.armed)]_vars

\* torn down while a typed value was waiting for its timer: the box holds
\* the value, searchTerm never took it
C12_Witness ==
    /\ ~mounted
    /\ ~pending.armed
    /\ searchValue # <<>>
    /\ searchValue # searchTerm

\* C15: search input is coalesced.  The running timer always holds the
\* value typed last; searchTerm changes only when the timer expires, and
\* then to the value in the box, which is the value typed last; the value a
\* later keystroke or clear replaced in the timer is not the one applied.
C15_Coalesced ==
    /\ [](pending.armed => pending.term = searchValue)
    /\ [][searchTerm' # searchTerm =>
            /\ pending.armed
            /\ ~pending'.armed
            /\ searchTerm' = searchValue
            /\ ~(dropped.some /\ searchTerm' = dropped.term)]_vars
    /\ []((mounted /\ ~pending.armed /\ dropped.some) => searchTerm # dropped.term)

\* a value was typed, a second one replaced it before the timer expired,
\* and the timer has applied the second one
C15_Witness ==
    /\ mounted
    /\ ~pending.armed
    /\ dropped.some
    /\ dropped.term # <<>>
    /\ searchTerm # <<>>
    /\ searchTerm = searchValue
    /\ searchTerm # dropped.term

\* result is the filter of the collection ls under term and the filters fl
IsFilterOf(result, ls, term, fl) ==
    /\ IsSubsequence(result, ls)
    /\ \A k \in 1..Len(ls) :
          Occurs(ls[k], result) <=>
              /\ TextOrYearMatch(ls[k], term)
              /\ ColorMatch(ls[k], fl)
              /\ TypeMatch(ls[k], fl)

\* C16: if from some point on the component stays mounted and the box keeps
\* the value v (the user has stopped typing; v is empty after the clear
\* button), then, the timer being fair, from some point on searchTerm is v
\* and the visible result is the filter of the collection under v and the
\* current colour and type filters.
C16_EventuallySearched ==
    \A v \in TypedValues :
        <>[](mounted /\ searchValue = v) =>
            <>[](searchTerm = v /\ IsFilterOf(filteredLogos, logos, v, filters))

\* a typed term was replaced by the empty string, the timer has expired and
\* searchTerm is empty again, under a colour filter
C16_Witness ==
    /\ mounted
    /\ ~pending.armed
    /\ searchValue = <<>>
    /\ searchTerm = <<>>
    /\ dropped.some
    /\ dropped.term # <<>>
    /\ filters.color # <<>>

\* C18: each query-mutating event changes only its own component of the
\* query and never the collection: a colour click leaves the type filter
\* and searchTerm as they were, a type click leaves the colour filter and
\* searchTerm as they were, a debounced search update leaves both filters
\* as they were; in every sequence of events, a colour click and a type
\* click handled before the next re-render included.
C18_FrameEffect ==
    [][/\ logos' = logos
       /\ colorClicks' # colorClicks =>
             (filters'.type = filters.type /\ searchTerm' = searchTerm)
       /\ typeClicks' # typeClicks =>
             (filters'.color = filters.color /\ searchTerm' = searchTerm)
       /\ searchTerm' # searchTerm => filters' = filters]_vars

====
